---- MODULE Spec2Model ----
(***************************************************************************)
(* Model of extractor/v2/extractor.py: the range-to-index resolution       *)
(* (Extractor._get_api_item_indices with its two nested binary searches)   *)
(* and the extraction loops (Extractor.get_issues_data / get_pr_data).     *)
(***************************************************************************)
EXTENDS Integers, Sequences, FiniteSets, TLC

\* ------------------------------------------------------------------ bounds
\* record numbers of the small collections are drawn from 1..MaxNum
MaxNum == 4
\* configured page length of the small collections is drawn from 1..MaxPageLen
MaxPageLen == 3
\* at most this many rate-limit signals are injected in one run
MaxRateLimits == 2

VARIABLES
    paged_list,       \* the remote collection: sequence of records, ascending number
    page_len,         \* self.gh_sesh.get_pg_len()
    cfg,              \* configuration: kind of run, "range", "state"
    pc,               \* position of the run
    last_page_index,  \* local of _get_api_item_indices
    highest_num,      \* local of _get_api_item_indices
    clean_range,      \* the sanitized range (clean_range_tuple)
    val_i,            \* which boundary the for loop of line 391 is at (1 or 2)
    low,              \* local `low` of the running binary search
    high,             \* local `high` of __bin_search_in_list
    plen,             \* local `page_len` of __bin_search_in_page
    page_index,       \* result of __bin_search_in_list for the current boundary
    item_page_index,  \* result of __bin_search_in_page for the current boundary
    out_list,         \* out_list of _get_api_item_indices
    start_val,        \* loop index of the extraction loop
    end_val,          \* last index of the extraction loop
    data_dict,        \* the in-memory accumulator
    cur_entry,        \* local cur_entry of the loop body
    out_file,         \* content of the output file (the persistent store)
    err,              \* the exception that ended the run, "none" if none
    limits            \* number of rate-limit signals raised so far

vars == <<paged_list, page_len, cfg, pc, last_page_index, highest_num,
          clean_range, val_i, low, high, plen, page_index, item_page_index,
          out_list, start_val, end_val, data_dict, cur_entry, out_file, err,
          limits>>

resolverVars == <<last_page_index, highest_num, clean_range, val_i, low, high,
                  plen, page_index, item_page_index, out_list>>

loopVars == <<start_val, end_val, data_dict, cur_entry, out_file, limits>>

inputVars == <<paged_list, page_len, cfg>>

\* ------------------------------------------------------------- python helpers
\* the empty dict
EmptyDict == [k \in {} |-> 0]

\* min(a, b)
Min(a, b) == IF a <= b THEN a ELSE b

\* seq[i] is defined (python list indexing, negative indices count from the end)
PyIndexOk(seq, i) == (0 - Len(seq)) <= i /\ i < Len(seq)

\* seq[i] (python list indexing)
PyGet(seq, i) == IF i >= 0 THEN seq[i + 1] ELSE seq[Len(seq) + i + 1]

\* paged_list.totalCount
TotalCount(pl) == Len(pl)

\* paged_list.get_page(k): the records of page k, the final page may be shorter
GetPage(pl, pglen, k) ==
    SubSeq(pl, k * pglen + 1, Min((k + 1) * pglen, Len(pl)))

\* _get_page_last_item(paged_list, page_index)
GetPageLastItem(pl, pglen, k) == PyGet(GetPage(pl, pglen, k), 0 - 1)

\* the range left as configured (no clamp)
CleanRangeNoClamp(range_list, highest) ==
    << PyGet(range_list, 0), PyGet(range_list, 0 - 1) >>

\* min(val, highest_num) for val in (range_list[0], range_list[-1])
CleanRange(range_list, highest) ==
    << Min(PyGet(range_list, 0), highest), Min(PyGet(range_list, 0 - 1), highest) >>

\* the page search whose downward move goes past mid upwards (high = mid + 1)
BinSearchInListStepHighUp(pl, pglen, lo, hi, val) ==
    IF ~(lo < hi - 1)
    THEN [done |-> TRUE, ret |-> lo, low |-> lo, high |-> hi]
    ELSE LET mid == (lo + hi) \div 2
             mid_first_val == PyGet(GetPage(pl, pglen, mid), 0).number
             mid_last_val == GetPageLastItem(pl, pglen, mid).number
         IN  IF mid_first_val <= val /\ val <= mid_last_val
             THEN [done |-> TRUE, ret |-> mid, low |-> lo, high |-> hi]
             ELSE IF val < mid_first_val
             THEN [done |-> FALSE, ret |-> 0, low |-> lo, high |-> mid + 1]
             ELSE IF val > mid_last_val
             THEN [done |-> FALSE, ret |-> 0, low |-> mid + 1, high |-> hi]
             ELSE [done |-> FALSE, ret |-> 0, low |-> lo, high |-> hi]

\* one pass of the while loop of __bin_search_in_list, test included
BinSearchInListStep(pl, pglen, lo, hi, val) ==
    IF ~(lo < hi - 1)
    THEN [done |-> TRUE, ret |-> lo, low |-> lo, high |-> hi]
    ELSE LET mid == (lo + hi) \div 2
             mid_first_val == PyGet(GetPage(pl, pglen, mid), 0).number
             mid_last_val == GetPageLastItem(pl, pglen, mid).number
         IN  IF mid_first_val <= val /\ val <= mid_last_val
             THEN [done |-> TRUE, ret |-> mid, low |-> lo, high |-> hi]
             ELSE IF val < mid_first_val
             THEN [done |-> FALSE, ret |-> 0, low |-> lo, high |-> mid - 1]
             ELSE IF val > mid_last_val
             THEN [done |-> FALSE, ret |-> 0, low |-> mid + 1, high |-> hi]
             ELSE [done |-> FALSE, ret |-> 0, low |-> lo, high |-> hi]

\* the in-page search with the two comparisons of the target exchanged
BinSearchInPageStepSwapped(page, lo, pl, val) ==
    IF ~(lo < pl - 1)
    THEN [done |-> TRUE, err |-> FALSE, ret |-> lo, low |-> lo, page_len |-> pl]
    ELSE LET mid == (lo + pl) \div 2
         IN  IF ~PyIndexOk(page, mid)
             THEN [done |-> TRUE, err |-> TRUE, ret |-> 0, low |-> lo, page_len |-> pl]
             ELSE LET cur_val == PyGet(page, mid).number
                  IN  IF val = cur_val
                      THEN [done |-> TRUE, err |-> FALSE, ret |-> mid,
                            low |-> lo, page_len |-> pl]
                      ELSE IF val > cur_val
                      THEN [done |-> FALSE, err |-> FALSE, ret |-> 0,
                            low |-> lo, page_len |-> mid - 1]
                      ELSE [done |-> FALSE, err |-> FALSE, ret |-> 0,
                            low |-> mid + 1, page_len |-> pl]

\* the in-page search whose upward move keeps mid (low = mid)
BinSearchInPageStepLowMid(page, lo, pl, val) ==
    IF ~(lo < pl - 1)
    THEN [done |-> TRUE, err |-> FALSE, ret |-> lo, low |-> lo, page_len |-> pl]
    ELSE LET mid == (lo + pl) \div 2
         IN  IF ~PyIndexOk(page, mid)
             THEN [done |-> TRUE, err |-> TRUE, ret |-> 0, low |-> lo, page_len |-> pl]
             ELSE LET cur_val == PyGet(page, mid).number
                  IN  IF val = cur_val
                      THEN [done |-> TRUE, err |-> FALSE, ret |-> mid,
                            low |-> lo, page_len |-> pl]
                      ELSE IF val < cur_val
                      THEN [done |-> FALSE, err |-> FALSE, ret |-> 0,
                            low |-> lo, page_len |-> mid - 1]
                      ELSE [done |-> FALSE, err |-> FALSE, ret |-> 0,
                            low |-> IF mid > lo THEN mid ELSE mid + 1,
                            page_len |-> pl]

\* one pass of the while loop of __bin_search_in_page, test included;
\* err is set when paged_list_page[mid] raises IndexError
BinSearchInPageStep(page, lo, pl, val) ==
    IF ~(lo < pl - 1)
    THEN [done |-> TRUE, err |-> FALSE, ret |-> lo, low |-> lo, page_len |-> pl]
    ELSE LET mid == (lo + pl) \div 2
         IN  IF ~PyIndexOk(page, mid)
             THEN [done |-> TRUE, err |-> TRUE, ret |-> 0, low |-> lo, page_len |-> pl]
             ELSE LET cur_val == PyGet(page, mid).number
                  IN  IF val = cur_val
                      THEN [done |-> TRUE, err |-> FALSE, ret |-> mid,
                            low |-> lo, page_len |-> pl]
                      ELSE IF val < cur_val
                      THEN [done |-> FALSE, err |-> FALSE, ret |-> 0,
                            low |-> lo, page_len |-> mid - 1]
                      ELSE [done |-> FALSE, err |-> FALSE, ret |-> 0,
                            low |-> mid + 1, page_len |-> pl]

\* the merge that keeps nothing of base
MergeDictsReplace(base, to_merge) == to_merge

\* _merge_dicts(base, to_merge): {**base, **to_merge}
MergeDicts(base, to_merge) ==
    [k \in (DOMAIN base) \cup (DOMAIN to_merge) |->
        IF k \in DOMAIN to_merge THEN to_merge[k] ELSE base[k]]

\* file_io.write_merged_dict_to_json(dict, out_file): the new content of the
\* file; the records of each top-level key are added to those the file holds
WriteMergedDictToJson(d, file) ==
    [k \in (DOMAIN file) \cup (DOMAIN d) |->
        IF k \in DOMAIN file /\ k \in DOMAIN d THEN MergeDicts(file[k], d[k])
        ELSE IF k \in DOMAIN d THEN d[k]
        ELSE file[k]]

\* the value a field extractor of a dispatch table returns for an API object
FieldValue(field, number) == <<field, number>>

\* {field: DISPATCH[field](obj) for field in fields}
ExtractFields(fields, number) ==
    [f \in {fields[i] : i \in 1..Len(fields)} |-> FieldValue(f, number)]

\* lines 461-466: the entry of an issue, keyed by str(number)
IssueEntry(rec, c) ==
    [k \in {ToString(rec.number)} |-> ExtractFields(c.issues_fields, rec.number)]

\* the PR fields extracted whatever the merged flag and the state filter are
PrEntryDataAlways(rec, c) ==
    MergeDicts([k \in {"__pr_merged"} |-> rec.merged],
               ExtractFields(c.pr_fields, rec.number))

\* lines 577-587: the merged flag, and the PR fields when they are extracted
PrEntryData(rec, c) ==
    LET flag == [k \in {"__pr_merged"} |-> rec.merged]
    IN  IF rec.merged \/ c.state = "open"
        THEN MergeDicts(flag, ExtractFields(c.pr_fields, rec.number))
        ELSE flag

\* the commit fields extracted whether or not the last commit touched a file
PrFullDataAnyCommit(rec, c) ==
    IF rec.merged \/ c.state = "open"
    THEN MergeDicts(PrEntryData(rec, c), ExtractFields(c.commit_fields, rec.number))
    ELSE PrEntryData(rec, c)

\* lines 577-600: the data gathered for a pull request
PrFullData(rec, c) ==
    IF (rec.merged \/ c.state = "open") /\ rec.files > 0
    THEN MergeDicts(PrEntryData(rec, c), ExtractFields(c.commit_fields, rec.number))
    ELSE PrEntryData(rec, c)

\* line 603: the entry of a pull request, keyed by str(number)
PrEntry(rec, c) == [k \in {ToString(rec.number)} |-> PrFullData(rec, c)]

\* cur_entry at the end of a try body that raised nothing
CurEntry(rec, c) == IF c.kind = "issue" THEN IssueEntry(rec, c) ELSE PrEntry(rec, c)

\* the places of the try body where the remote session can raise, for the record
\* at the loop index (none but the fetch when the index is outside the list)
RaisePoints(pl, i, c) ==
    IF ~PyIndexOk(pl, i) THEN {"fetch"}
    ELSE IF c.kind = "issue" THEN {"fetch", "issue_field"}
    ELSE LET rec == PyGet(pl, i)
         IN  {"fetch"}
             \cup (IF rec.merged \/ c.state = "open"
                   THEN {"pr_field", "last_commit"} ELSE {})
             \cup (IF (rec.merged \/ c.state = "open") /\ rec.files > 0
                   THEN {"commit_field"} ELSE {})

\* cur_entry when the try body is left by an exception raised at the point
PartialEntry(pl, i, c, point, prev) ==
    IF c.kind = "issue" \/ point = "fetch" THEN prev
    ELSE IF point = "pr_field" THEN [k \in {"__pr_merged"} |-> PyGet(pl, i).merged]
    ELSE PrEntryData(PyGet(pl, i), c)

\* item_list_index = item_page_index + (page_index * page_len)
ItemListIndex(item_idx, page_idx, pglen) == item_idx + (page_idx * pglen)

\* ------------------------------------------------------------------ inputs
RECURSIVE AscSeq(_)
\* the elements of a finite set of integers in ascending order
AscSeq(S) ==
    IF S = {} THEN << >>
    ELSE LET m == CHOOSE x \in S : \A y \in S : y <= x
         IN  Append(AscSeq(S \ {m}), m)

\* the configuration of a run: which loop runs, "range", "state", and the fields
Cfg(kind, range, state) ==
    [kind |-> kind, range |-> range, state |-> state,
     issues_fields |-> <<"issue_title", "issue_body">>,
     pr_fields |-> <<"pr_title">>,
     commit_fields |-> <<"commit_sha">>]

\* which pull requests of a collection are merged: none, all, the odd-numbered
MergedChoices(S) == { {}, S, {n \in S : n % 2 = 1} }

\* a record of the remote collection
Record(n, merged, files) == [number |-> n, merged |-> merged, files |-> files]

\* the collection of the worked examples: 100 records numbered 1..100, pages of 30
ExampleList == [i \in 1..100 |-> Record(i, FALSE, 0)]

ExamplePageLen == 30

ExampleRanges == { <<45, 45>>, <<1, 500>> }

IsExample == paged_list = ExampleList /\ page_len = ExamplePageLen

\* ------------------------------------------------------------------- Init
InitRest ==
    /\ pc = "start"
    /\ last_page_index = 0
    /\ highest_num = 0
    /\ clean_range = << >>
    /\ val_i = 0
    /\ low = 0
    /\ high = 0
    /\ plen = 0
    /\ page_index = 0
    /\ item_page_index = 0
    /\ out_list = << >>
    /\ start_val = 0
    /\ end_val = 0
    /\ data_dict = EmptyDict
    /\ cur_entry = EmptyDict
    /\ out_file = EmptyDict
    /\ err = "none"
    /\ limits = 0

InitIssues ==
    /\ \E S \in (SUBSET (1..MaxNum)) \ {{}} :
          paged_list = [i \in 1..Cardinality(S) |-> Record(AscSeq(S)[i], FALSE, 0)]
    /\ page_len \in 1..MaxPageLen
    /\ \E lo \in 0..(MaxNum + 1), hi \in 0..(MaxNum + 1) :
          cfg = Cfg("issue", <<lo, hi>>, "closed")
    /\ InitRest

InitPr ==
    /\ \E S \in (SUBSET (1..MaxNum)) \ {{}} :
       \E M \in MergedChoices(S), files \in 0..1 :
          paged_list = [i \in 1..Cardinality(S) |->
                           Record(AscSeq(S)[i], AscSeq(S)[i] \in M, files)]
    /\ page_len \in 1..MaxPageLen
    /\ \E lo \in 0..(MaxNum + 1), hi \in 0..(MaxNum + 1), st \in {"closed", "open"} :
          cfg = Cfg("pr", <<lo, hi>>, st)
    /\ InitRest

InitExample ==
    /\ paged_list = ExampleList
    /\ page_len = ExamplePageLen
    /\ \E r \in ExampleRanges :
          cfg = Cfg("issue", r, "closed")
    /\ InitRest

Init == InitIssues \/ InitPr \/ InitExample

\* ---------------------------------------------------------------- resolver
\* value of the boundary the for loop of line 391 is at
CurVal == clean_range[val_i]

\* get_issues_data / get_pr_data up to the call of _get_api_item_indices, and
\* _get_api_item_indices up to the first call of __bin_search_in_list
StartExtraction ==
    /\ pc = "start"
    /\ data_dict' = [k \in {cfg.kind} |-> EmptyDict]
    /\ last_page_index' = (TotalCount(paged_list) - 1) \div page_len
    /\ highest_num' = GetPageLastItem(paged_list, page_len, last_page_index').number
    /\ clean_range' = CleanRange(cfg.range, highest_num')
    /\ val_i' = 1
    /\ low' = 0
    /\ high' = last_page_index'
    /\ pc' = "bin_search_in_list"
    /\ UNCHANGED <<plen, page_index, item_page_index, out_list, start_val, end_val,
                   cur_entry, out_file, err, limits>>
    /\ UNCHANGED inputVars

\* one pass of the loop of __bin_search_in_list; on return, line 395 stores the
\* page index and __bin_search_in_page is entered with the configured page_len
BinSearchInList ==
    /\ pc = "bin_search_in_list"
    /\ LET s == BinSearchInListStep(paged_list, page_len, low, high, CurVal)
       IN  IF s.done
           THEN /\ page_index' = s.ret
                /\ low' = 0
                /\ plen' = page_len
                /\ pc' = "bin_search_in_page"
                /\ UNCHANGED high
           ELSE /\ low' = s.low
                /\ high' = s.high
                /\ UNCHANGED <<page_index, plen, pc>>
    /\ UNCHANGED <<last_page_index, highest_num, clean_range, val_i,
                   item_page_index, out_list>>
    /\ UNCHANGED loopVars
    /\ UNCHANGED <<err>>
    /\ UNCHANGED inputVars

\* one pass of the loop of __bin_search_in_page; on return, lines 406-414 append
\* the flat index, and the for loop goes to the next boundary or the resolver
\* returns and the caller unpacks start_val and end_val
BinSearchInPage ==
    /\ pc = "bin_search_in_page"
    /\ LET s == BinSearchInPageStep(GetPage(paged_list, page_len, page_index),
                                    low, plen, CurVal)
       IN  IF s.done /\ s.err
           THEN /\ pc' = "error"
                /\ err' = "IndexError"
                /\ UNCHANGED <<val_i, low, high, plen, item_page_index, out_list,
                               start_val, end_val>>
           ELSE IF s.done
           THEN /\ item_page_index' = s.ret
                /\ out_list' = Append(out_list,
                                      ItemListIndex(s.ret, page_index, page_len))
                /\ IF val_i = 1
                   THEN /\ val_i' = 2
                        /\ low' = 0
                        /\ high' = last_page_index
                        /\ pc' = "bin_search_in_list"
                        /\ UNCHANGED <<start_val, end_val>>
                   ELSE /\ start_val' = out_list'[1]
                        /\ end_val' = out_list'[2]
                        /\ pc' = "loop"
                        /\ UNCHANGED <<val_i, low, high>>
                /\ UNCHANGED <<plen, err>>
           ELSE /\ low' = s.low
                /\ plen' = s.page_len
                /\ UNCHANGED <<val_i, high, item_page_index, out_list, start_val,
                               end_val, pc, err>>
    /\ UNCHANGED <<last_page_index, highest_num, clean_range, page_index>>
    /\ UNCHANGED <<data_dict, cur_entry, out_file, limits>>
    /\ UNCHANGED inputVars

\* ------------------------------------------------------------ extraction loop
\* the key of the accumulator: data_dict = {"issue": {}} or {"pr": {}}
DataKey == cfg.kind

\* the loop test that ends the run without writing the accumulator
LoopTestNoFlush ==
    /\ pc = "loop"
    /\ IF start_val < end_val + 1 THEN pc' = "try" ELSE pc' = "done"
    /\ UNCHANGED <<start_val, end_val, data_dict, cur_entry, out_file, err, limits>>
    /\ UNCHANGED resolverVars
    /\ UNCHANGED inputVars

\* the loop test written with "differs from" in place of "less than"
LoopTestNotEqual ==
    /\ pc = "loop"
    /\ IF start_val # end_val + 1
       THEN /\ pc' = "try"
            /\ UNCHANGED out_file
       ELSE /\ out_file' = WriteMergedDictToJson(data_dict, out_file)
            /\ pc' = "done"
    /\ UNCHANGED <<start_val, end_val, data_dict, cur_entry, err, limits>>
    /\ UNCHANGED resolverVars
    /\ UNCHANGED inputVars

\* the while test of lines 456 / 568, and line 479 / 616 when it fails
LoopTest ==
    /\ pc = "loop"
    /\ IF start_val < end_val + 1
       THEN /\ pc' = "try"
            /\ UNCHANGED out_file
       ELSE /\ out_file' = WriteMergedDictToJson(data_dict, out_file)
            /\ pc' = "done"
    /\ UNCHANGED <<start_val, end_val, data_dict, cur_entry, err, limits>>
    /\ UNCHANGED resolverVars
    /\ UNCHANGED inputVars

\* the try body of lines 457-466 / 569-603 when the remote session raises
\* nothing: paged_list[start_val] raises IndexError outside the list
TryOk ==
    /\ pc = "try"
    /\ IF PyIndexOk(paged_list, start_val)
       THEN /\ cur_entry' = CurEntry(PyGet(paged_list, start_val), cfg)
            /\ pc' = "else"
            /\ UNCHANGED err
       ELSE /\ pc' = "error"
            /\ err' = "IndexError"
            /\ UNCHANGED cur_entry
    /\ UNCHANGED <<start_val, end_val, data_dict, out_file, limits>>
    /\ UNCHANGED resolverVars
    /\ UNCHANGED inputVars

\* the rate limit that leaves what the try body gathered in the accumulator
TryRateLimitMerging ==
    /\ pc = "try"
    /\ limits < MaxRateLimits
    /\ \E point \in RaisePoints(paged_list, start_val, cfg) :
          cur_entry' = PartialEntry(paged_list, start_val, cfg, point, cur_entry)
    /\ data_dict' = IF DataKey \in DOMAIN data_dict
                    THEN [data_dict EXCEPT ![DataKey] = MergeDicts(@, cur_entry')]
                    ELSE data_dict
    /\ limits' = limits + 1
    /\ pc' = "except"
    /\ UNCHANGED <<start_val, end_val, out_file, err>>
    /\ UNCHANGED resolverVars
    /\ UNCHANGED inputVars

\* the try body when github.RateLimitExceededException is raised in it
TryRateLimit ==
    /\ pc = "try"
    /\ limits < MaxRateLimits
    /\ \E point \in RaisePoints(paged_list, start_val, cfg) :
          cur_entry' = PartialEntry(paged_list, start_val, cfg, point, cur_entry)
    /\ limits' = limits + 1
    /\ pc' = "except"
    /\ UNCHANGED <<start_val, end_val, data_dict, out_file, err>>
    /\ UNCHANGED resolverVars
    /\ UNCHANGED inputVars

\* the other remote failure handled by writing the accumulator before the end
TryFatalFlush ==
    /\ pc = "try"
    /\ \E point \in RaisePoints(paged_list, start_val, cfg) :
          cur_entry' = PartialEntry(paged_list, start_val, cfg, point, cur_entry)
    /\ out_file' = WriteMergedDictToJson(data_dict, out_file)
    /\ pc' = "error"
    /\ err' = "GithubException"
    /\ UNCHANGED <<start_val, end_val, data_dict, limits>>
    /\ UNCHANGED resolverVars
    /\ UNCHANGED inputVars

\* the try body when the remote session raises any other exception
TryFatal ==
    /\ pc = "try"
    /\ \E point \in RaisePoints(paged_list, start_val, cfg) :
          cur_entry' = PartialEntry(paged_list, start_val, cfg, point, cur_entry)
    /\ pc' = "error"
    /\ err' = "GithubException"
    /\ UNCHANGED <<start_val, end_val, data_dict, out_file, limits>>
    /\ UNCHANGED resolverVars
    /\ UNCHANGED inputVars

\* the handler that clears the accumulator without writing it
ExceptNoWrite ==
    /\ pc = "except"
    /\ data_dict' = EmptyDict
    /\ pc' = "sleep"
    /\ UNCHANGED <<start_val, end_val, cur_entry, out_file, err, limits>>
    /\ UNCHANGED resolverVars
    /\ UNCHANGED inputVars

\* lines 469-470 / 606-607: the handler writes the accumulator and clears it
Except ==
    /\ pc = "except"
    /\ out_file' = WriteMergedDictToJson(data_dict, out_file)
    /\ data_dict' = EmptyDict
    /\ pc' = "sleep"
    /\ UNCHANGED <<start_val, end_val, cur_entry, err, limits>>
    /\ UNCHANGED resolverVars
    /\ UNCHANGED inputVars

\* the wait that resumes at the next index
WakeSkip ==
    /\ pc = "sleep"
    /\ pc' = "loop"
    /\ start_val' = start_val + 1
    /\ UNCHANGED <<end_val, data_dict, cur_entry, out_file, err, limits>>
    /\ UNCHANGED resolverVars
    /\ UNCHANGED inputVars

\* line 471 / 608: sleep_gh_session returns and the loop goes to its test
Wake ==
    /\ pc = "sleep"
    /\ pc' = "loop"
    /\ UNCHANGED <<start_val, end_val, data_dict, cur_entry, out_file, err, limits>>
    /\ UNCHANGED resolverVars
    /\ UNCHANGED inputVars

\* the else clause of lines 474-477 / 611-614: data_dict[key] raises KeyError
\* when the accumulator has no such key
Else ==
    /\ pc = "else"
    /\ IF DataKey \in DOMAIN data_dict
       THEN /\ data_dict' = [data_dict EXCEPT ![DataKey] = MergeDicts(@, cur_entry)]
            /\ start_val' = start_val + 1
            /\ pc' = "loop"
            /\ UNCHANGED err
       ELSE /\ pc' = "error"
            /\ err' = "KeyError"
            /\ UNCHANGED <<data_dict, start_val>>
    /\ UNCHANGED <<end_val, cur_entry, out_file, limits>>
    /\ UNCHANGED resolverVars
    /\ UNCHANGED inputVars

\* -------------------------------------------------- properties of the resolver
RECURSIVE BinSearchInListRun(_, _, _, _, _)
\* __bin_search_in_list run to its return from the interval [lo, hi]
BinSearchInListRun(pl, pglen, lo, hi, val) ==
    LET s == BinSearchInListStep(pl, pglen, lo, hi, val)
    IN  IF s.done THEN s.ret ELSE BinSearchInListRun(pl, pglen, s.low, s.high, val)

RECURSIVE BinSearchInPageRun(_, _, _, _)
\* __bin_search_in_page run to its return (or its IndexError)
BinSearchInPageRun(page, lo, pl, val) ==
    LET s == BinSearchInPageStep(page, lo, pl, val)
    IN  IF s.done THEN [err |-> s.err, ret |-> s.ret]
        ELSE BinSearchInPageRun(page, s.low, s.page_len, val)

\* body of the for loop of line 391 for one boundary value, without the clamp
ResolveIndex(pl, pglen, val) ==
    LET last == (TotalCount(pl) - 1) \div pglen
        pg == BinSearchInListRun(pl, pglen, 0, last, val)
        r == BinSearchInPageRun(GetPage(pl, pglen, pg), 0, pglen, val)
    IN  [err |-> r.err, index |-> ItemListIndex(r.ret, pg, pglen)]

LowestNum == paged_list[1].number

HighestNum == paged_list[Len(paged_list)].number

LastPageIndex == (Len(paged_list) - 1) \div page_len

PageFirst(k) == GetPage(paged_list, page_len, k)[1].number

PageLast(k) == LET p == GetPage(paged_list, page_len, k) IN p[Len(p)].number

\* the page that brackets v, or the nearest lower page when v is between two pages
ExpectedPage(v) ==
    CHOOSE k \in 0..LastPageIndex :
        \/ PageFirst(k) <= v /\ v <= PageLast(k)
        \/ PageLast(k) < v /\ (k = LastPageIndex \/ v < PageFirst(k + 1))

\* the offsets of the records of a page whose number is at most v
OffsetsUpTo(page, v) == { o \in 0..(Len(page) - 1) : page[o + 1].number <= v }

\* the offset of v on the page, or of the greatest number below v
ExpectedOffset(page, v) ==
    CHOOSE o \in OffsetsUpTo(page, v) : \A q \in OffsetsUpTo(page, v) : q <= o

\* the flat position of the record numbered v, or of the nearest lower record
ExpectedIndex(v) ==
    CHOOSE i \in 0..(Len(paged_list) - 1) :
        /\ paged_list[i + 1].number <= v
        /\ (i + 1 < Len(paged_list) => paged_list[i + 2].number > v)

\* the boundary whose page_index and item_page_index are the current ones
ResolvedBoundary ==
    IF Len(out_list) = 2 THEN 2
    ELSE IF Len(out_list) = 1 /\ pc = "bin_search_in_list" THEN 1
    ELSE 0

\* the page __bin_search_in_page was given for the resolved boundary
SearchedPage == GetPage(paged_list, page_len, page_index)

\* C1: when __bin_search_in_list returns for a target between the lowest and
\* the highest number, the page it returns brackets the target or is the
\* nearest lower page
C1_PageBracketsTarget ==
    (pc = "bin_search_in_page" /\ LowestNum <= CurVal /\ CurVal <= HighestNum)
        => page_index = ExpectedPage(CurVal)

\* C2: when __bin_search_in_page returns and the page holds a number at most
\* the target, the offset is that of the target or of the greatest number
\* below it
C2_OffsetIsFloor ==
    (ResolvedBoundary > 0
       /\ OffsetsUpTo(SearchedPage, clean_range[ResolvedBoundary]) # {})
        => item_page_index = ExpectedOffset(SearchedPage, clean_range[ResolvedBoundary])

\* a requested boundary that is inside the collection's numbers
InBounds(v) == LowestNum <= v /\ v <= HighestNum

\* C3: every resolved boundary inside the collection's numbers gets the flat
\* position of its record or of the nearest lower record, and the resolver
\* raises no error for such a boundary
C3_GlobalIndexIsFloor ==
    /\ \A j \in 1..Len(out_list) :
          InBounds(cfg.range[j]) => out_list[j] = ExpectedIndex(cfg.range[j])
    /\ (pc = "error" /\ Len(out_list) < 2 /\ InBounds(cfg.range[val_i]))
          => err = "none"

\* C4: 100 records 1..100, pages of 30, range [1, 500]: high is clamped to 100
\* and the indices are 0 and 99
C4_ExampleClamped ==
    (IsExample /\ cfg.range = <<1, 500>> /\ Len(out_list) = 2)
        => clean_range[2] = 100 /\ out_list = <<0, 99>>

\* C5: 100 records 1..100, pages of 30, range [45, 45]: each boundary resolves
\* to page 1, offset 14, global index 44
C5_ExampleExact ==
    (IsExample /\ cfg.range = <<45, 45>> /\ Len(out_list) >= 1)
        => /\ page_index = 1
           /\ item_page_index = 14
           /\ PageFirst(page_index) = 31 /\ PageLast(page_index) = 60
           /\ \A j \in 1..Len(out_list) : out_list[j] = 44

C5_Witness ==
    IsExample /\ cfg.range = <<45, 45>> /\ Len(out_list) = 2 /\ pc = "loop"

\* C6: a high boundary above the highest number resolves as the highest number
\* itself resolves: to the same endIndex, or to the same error
C6_ClampedHighSameAsMax ==
    /\ (Len(out_list) = 2 /\ cfg.range[2] > HighestNum)
          => LET r == ResolveIndex(paged_list, page_len, HighestNum)
             IN  ~r.err /\ out_list[2] = r.index
    /\ (pc = "error" /\ Len(out_list) = 1 /\ cfg.range[2] > HighestNum)
          => ResolveIndex(paged_list, page_len, HighestNum).err

C6_Witness ==
    /\ Len(out_list) = 2
    /\ cfg.range[2] > HighestNum + 1
    /\ out_list[2] = Len(paged_list) - 1
    /\ Len(paged_list) > 1


\* ------------------------------------------------------ properties of the loop
\* the indices the resolver handed to the loop
RangeIndices == out_list[1]..out_list[2]

\* what one uninterrupted run over the resolved range leaves in the output
\* file: under the run's key, one entry per record of the range, keyed by number
ExpectedStore ==
    [k \in {DataKey} |->
        [key \in {ToString(PyGet(paged_list, i).number) : i \in RangeIndices} |->
            LET i == CHOOSE j \in RangeIndices :
                        ToString(PyGet(paged_list, j).number) = key
            IN  CurEntry(PyGet(paged_list, i), cfg)[key]]]

\* the run has ended, normally or by an exception
Ended == pc \in {"done", "error"}

\* C7: a run that was interrupted by rate limits, and hit no other failure,
\* ends with the output file an uninterrupted run over the range produces
C7_IdempotentRetry ==
    (Ended /\ Len(out_list) = 2 /\ limits > 0
       /\ err \notin {"GithubException", "IndexError"}
       /\ out_list[2] < Len(paged_list))
        => out_file = ExpectedStore

\* C8: after a rate limit the run ends in an error only by a failure the rate
\* limit did not cause (another remote failure, an index outside the list)
C8_RateLimitNeverSurfaces ==
    (limits > 0 /\ pc = "error") => err \in {"GithubException", "IndexError"}

\* C9: a rate limit leaves the loop index where it is: the handler and the
\* wait do not change it, and the wait hands over to the loop test with that
\* index still inside the range, so the same record is fetched again
C9_SameIndexAfterLimit ==
    [][ /\ (pc = "try" /\ pc' = "except") => start_val' = start_val
        /\ pc = "except" => (pc' = "sleep" /\ start_val' = start_val)
        /\ pc = "sleep" => /\ pc' = "loop"
                           /\ start_val' = start_val
                           /\ start_val' < end_val' + 1 ]_vars

C9_Witness == pc = "try" /\ limits > 0 /\ start_val > out_list[1]

\* C10: in every DONE state the output file holds, under the run's key, one
\* entry per record at the indices startIndex..endIndex and nothing else
C10_DoneStoreComplete == pc = "done" => out_file = ExpectedStore

C10_Witness ==
    /\ pc = "done"
    /\ out_list[2] > out_list[1]
    /\ Cardinality(DOMAIN out_file[DataKey]) = out_list[2] - out_list[1] + 1

\* ------------------------------------------- properties of the written entries
\* the entries the run has written so far under its key, in the accumulator
\* and in the output file
Written(d) == IF DataKey \in DOMAIN d THEN d[DataKey] ELSE EmptyDict

\* the keys of the written entries
WrittenKeys == (DOMAIN Written(data_dict)) \cup (DOMAIN Written(out_file))

\* the entry written under a key (the accumulator's, else the file's)
WrittenEntry(key) ==
    IF key \in DOMAIN Written(data_dict) THEN Written(data_dict)[key]
    ELSE Written(out_file)[key]

\* the records of the collection with the number a key spells
RecordsOfKey(key) ==
    { paged_list[i] : i \in { j \in 1..Len(paged_list) :
                                 ToString(paged_list[j].number) = key } }

\* the names of a list of configured fields
FieldSet(fields) == { fields[i] : i \in 1..Len(fields) }

\* C11: the entry of a merged pull request whose last commit touched no file
\* holds the merged flag and every configured PR field and no commit field
C11_MergedNoFilesEntry ==
    cfg.kind = "pr" =>
        \A key \in WrittenKeys : \A rec \in RecordsOfKey(key) :
            (rec.merged /\ rec.files = 0) =>
                /\ "__pr_merged" \in DOMAIN WrittenEntry(key)
                /\ WrittenEntry(key)["__pr_merged"] = TRUE
                /\ FieldSet(cfg.pr_fields) \subseteq DOMAIN WrittenEntry(key)
                /\ FieldSet(cfg.commit_fields) \cap DOMAIN WrittenEntry(key) = {}

C11_Witness ==
    /\ cfg.kind = "pr"
    /\ pc = "done"
    /\ \E key \in DOMAIN Written(out_file) : \E rec \in RecordsOfKey(key) :
          rec.merged /\ rec.files = 0

\* C12: under the state filter "closed" the entry of a pull request that is not
\* merged is the merged flag alone, with value false, and the try body has no
\* remote call for the PR fields, the commits or the commit fields
C12_UnmergedClosedEntry ==
    (cfg.kind = "pr" /\ cfg.state = "closed") =>
        /\ \A key \in WrittenKeys : \A rec \in RecordsOfKey(key) :
              ~rec.merged => WrittenEntry(key) = [k \in {"__pr_merged"} |-> FALSE]
        /\ (pc = "try" /\ PyIndexOk(paged_list, start_val)
              /\ ~PyGet(paged_list, start_val).merged)
              => RaisePoints(paged_list, start_val, cfg) = {"fetch"}

C12_Witness ==
    /\ cfg.kind = "pr" /\ cfg.state = "closed"
    /\ pc = "done"
    /\ \E key \in DOMAIN Written(out_file) : \E rec \in RecordsOfKey(key) :
          ~rec.merged /\ rec.files > 0

\* ------------------------------------------- further properties of the resolver
\* the resolver was ended by the IndexError of paged_list_page[mid]
ResolverIndexError == pc = "error" /\ err = "IndexError" /\ Len(out_list) < 2

\* C13: __bin_search_in_page works with the actual length of the page it
\* searches: its page_len never exceeds that length, it reads no offset
\* outside the page, and the offset it returns is on the page
C13_ActualPageLength ==
    /\ pc = "bin_search_in_page" => plen <= Len(SearchedPage)
    /\ ~ResolverIndexError
    /\ ResolvedBoundary > 0 => item_page_index < Len(SearchedPage)

\* C19: both global indices are positions of the collection, each in-page
\* offset is an offset of the searched page, and no fetch of the resolver or
\* of the loop falls outside the collection
C19_IndicesInCollection ==
    /\ \A j \in 1..Len(out_list) : 0 <= out_list[j] /\ out_list[j] < Len(paged_list)
    /\ ResolvedBoundary > 0 =>
          (0 <= item_page_index /\ item_page_index < Len(SearchedPage))
    /\ ~(pc = "error" /\ err = "IndexError")

\* C20: an ascending requested range resolves to an ascending index range
C20_Monotone ==
    (Len(out_list) = 2 /\ cfg.range[1] <= cfg.range[2])
        => out_list[1] <= out_list[2]

C20_Witness ==
    /\ Len(out_list) = 2
    /\ cfg.range[1] < cfg.range[2]
    /\ out_list[1] < out_list[2]
    /\ LastPageIndex >= 2

\* --------------------------------------------- further properties of the loop
\* the complete entries of the records at a set of indices, keyed by number
EntriesOf(I) ==
    [key \in {ToString(PyGet(paged_list, i).number) : i \in I} |->
        LET i == CHOOSE j \in I : ToString(PyGet(paged_list, j).number) = key
        IN  CurEntry(PyGet(paged_list, i), cfg)[key]]

\* the indices whose extraction has succeeded so far
ExtractedIndices == out_list[1]..(start_val - 1)

\* f holds nothing but entries of g
SubDict(f, g) == (DOMAIN f) \subseteq (DOMAIN g) /\ \A k \in DOMAIN f : f[k] = g[k]

\* C15: while the loop is blocked in the wait, the accumulator holds no record
\* entry and the output file holds the entry of every record extracted so far
C15_CheckpointBeforeWait ==
    pc = "sleep" =>
        /\ \A k \in DOMAIN data_dict : data_dict[k] = EmptyDict
        /\ Written(out_file) = EntriesOf(ExtractedIndices)

C15_Witness == pc = "sleep" /\ start_val > out_list[1] + 1

\* C16: the record at the loop index, whose extraction has not succeeded, has
\* no entry in the accumulator or the output file, whatever a rate limit left
\* in cur_entry, and everything written is the complete entry of a record
\* extracted before
C16_NoPartialEntry ==
    (Len(out_list) = 2 /\ pc \in {"loop", "try", "except", "sleep"}) =>
        /\ PyIndexOk(paged_list, start_val) =>
              ToString(PyGet(paged_list, start_val).number) \notin WrittenKeys
        /\ SubDict(Written(data_dict), EntriesOf(ExtractedIndices))
        /\ SubDict(Written(out_file), EntriesOf(ExtractedIndices))

C16_Witness ==
    /\ pc = "sleep"
    /\ cfg.kind = "pr"
    /\ DOMAIN cur_entry = {"__pr_merged"}
    /\ start_val > out_list[1]

\* C17: when the resolved startIndex is above the resolved endIndex the loop
\* body never runs: the run is at the loop test or done, nothing was fetched,
\* and no record entry is written
C17_InvertedRangeNoOutput ==
    (Len(out_list) = 2 /\ out_list[1] > out_list[2]) =>
        /\ pc \in {"loop", "done"}
        /\ start_val = out_list[1]
        /\ limits = 0 /\ err = "none"
        /\ cur_entry = EmptyDict
        /\ WrittenKeys = {}

C17_Witness == pc = "done" /\ out_list[1] > out_list[2] + 1

\* C18: a remote failure other than a rate limit ends the run at once: the
\* step that raises it writes nothing to the output file and leaves the
\* accumulator as it is, and no step follows the error
C18_FatalNotCaught ==
    [][ /\ (err = "none" /\ err' = "GithubException")
              => (pc' = "error" /\ out_file' = out_file /\ data_dict' = data_dict)
        /\ pc # "error" ]_vars

C18_Witness ==
    /\ pc = "error" /\ err = "GithubException"
    /\ Written(data_dict) # EmptyDict
    /\ out_file = EmptyDict

\* C14: with finitely many rate limits and no other remote failure, a loop
\* entered with startIndex <= endIndex inside the collection reaches DONE
C14_EventuallyDone ==
    (pc = "loop" /\ start_val <= end_val /\ end_val < Len(paged_list))
        ~> (pc = "done")

\* the key of the record at the loop index
CurKey == ToString(PyGet(paged_list, start_val).number)

\* the written record numbers are those of the records extracted so far, each
\* held once: one key per extracted index, with the record's complete entry,
\* and, while the loop runs, in the accumulator or in the file but not in both
WrittenIsExtracted ==
    /\ WrittenKeys = DOMAIN EntriesOf(ExtractedIndices)
    /\ Cardinality(WrittenKeys) = Cardinality(ExtractedIndices)
    /\ \A key \in WrittenKeys : WrittenEntry(key) = EntriesOf(ExtractedIndices)[key]
    /\ pc # "done" =>
          (DOMAIN Written(data_dict)) \cap (DOMAIN Written(out_file)) = {}

\* a step of the loop keeps the loop index, or is the else clause of a
\* successful extraction, which merges the record and adds one to the index
IndexStep ==
    \/ start_val' = start_val
    \/ /\ start_val' = start_val + 1
       /\ pc = "else" /\ pc' = "loop"
       /\ CurKey \in DOMAIN Written(data_dict')

\* C21: once the loop has its range, the loop index never decreases and grows
\* by one only on a successful extraction, and in every state the numbers in
\* the file and the accumulator are those of the records at startIndex..i-1,
\* each once
C21_ProgressInvariant ==
    /\ [](Len(out_list) = 2 => WrittenIsExtracted)
    /\ [][Len(out_list) = 2 => IndexStep]_vars

C21_Witness ==
    /\ pc = "try"
    /\ limits > 0
    /\ Cardinality(DOMAIN Written(out_file)) >= 2
    /\ start_val = out_list[1] + Cardinality(DOMAIN Written(out_file))

\* the pass of __bin_search_in_list from the current state
ListStep == BinSearchInListStep(paged_list, page_len, low, high, CurVal)

\* the pass of __bin_search_in_page from the current state
PageStep ==
    BinSearchInPageStep(GetPage(paged_list, page_len, page_index), low, plen, CurVal)

\* C22: each pass of __bin_search_in_list and of __bin_search_in_page ends the
\* search (it returns, or the page read raises) or moves exactly one end of
\* the interval past mid (high = mid - 1 or low = mid + 1), which makes the
\* interval strictly shorter; the searches therefore end after finitely many
\* passes
C22_SearchesShrink ==
    /\ pc = "bin_search_in_list" =>
          \/ ListStep.done
          \/ LET mid == (low + high) \div 2
             IN  /\ low < high - 1
                 /\ \/ ListStep.high = mid - 1 /\ ListStep.low = low
                    \/ ListStep.low = mid + 1 /\ ListStep.high = high
                 /\ ListStep.low >= low /\ ListStep.high <= high
                 /\ ListStep.high - ListStep.low < high - low
    /\ pc = "bin_search_in_page" =>
          \/ PageStep.done
          \/ LET mid == (low + plen) \div 2
             IN  /\ low < plen - 1
                 /\ \/ PageStep.page_len = mid - 1 /\ PageStep.low = low
                    \/ PageStep.low = mid + 1 /\ PageStep.page_len = plen
                 /\ PageStep.low >= low /\ PageStep.page_len <= plen
                 /\ PageStep.page_len - PageStep.low < plen - low

\* the in-page search in a pass that shrinks again, after a pass of each
\* search has already shrunk its interval
C22_Witness ==
    /\ pc = "bin_search_in_page"
    /\ val_i = 2
    /\ high < last_page_index \/ page_index > 0
    /\ low > 0 \/ plen < page_len
    /\ ~PageStep.done

Next ==
    \/ StartExtraction
    \/ BinSearchInList
    \/ BinSearchInPage
    \/ LoopTest
    \/ TryOk
    \/ TryRateLimit
    \/ TryFatal
    \/ Except
    \/ Wake
    \/ Else

Spec == Init /\ [][Next]_vars

\* the steps of a run in which the remote session raises nothing but rate limits
LiveNext ==
    \/ StartExtraction
    \/ BinSearchInList
    \/ BinSearchInPage
    \/ LoopTest
    \/ TryOk
    \/ TryRateLimit
    \/ Except
    \/ Wake
    \/ Else

\* such runs, in which the program keeps running while it has a step to take
\* (sleep_gh_session returns) and at most MaxRateLimits rate limits are raised
LiveSpec == Init /\ [][LiveNext]_vars /\ WF_vars(LiveNext)

====
